---- MODULE Spec2Model ----
(***************************************************************************)
(* Model of tos/platforms/exp5438_2520/platform_message.h.                 *)
(*                                                                         *)
(* The header is pure declaration, so its "execution" is the processing of *)
(* a translation unit: the build defines or undefines the two feature      *)
(* macros, the preprocessor includes the header (once or several times),   *)
(* the include guard decides whether the three typedefs are seen, and the  *)
(* compiler lays the three types out from the layouts (size, alignment) of *)
(* the collaborator types that Serial.h and CC2520Radio.h declare.         *)
(*                                                                         *)
(* A second specification, SpecRun, starts from a compiled header and      *)
(* follows two objects of one of the two-member unions through the packet  *)
(* stack: stores and loads through the union's members.                    *)
(***************************************************************************)
EXTENDS Integers, Sequences, FiniteSets, TLC

\* ------------------------------------------------------------------ bounds

\* Largest sizeof of a collaborator type that the environments enumerate.
MaxSize == 3

\* How many times a translation unit includes the header.
MaxIncludes == 2

\* ----------------------------------------------------- names of the source

LPL == "LOW_POWER_LISTENING"
PL == "PACKET_LINK"
PLATFORM_MESSAGE_H == "PLATFORM_MESSAGE_H"

\* The macros the header tests with #ifdef inside message_metadata.
FeatureFlags == {LPL, PL}

\* Guard value of a declaration that no #ifdef encloses.
NoGuard == "NONE"

\* The types the header takes from Serial.h and CC2520Radio.h.
HeaderCollab == {"cc2520packet_header_t", "serial_header_t"}

FooterCollab == {"cc2520packet_footer_t"}

MetaUnionCollab == {"cc2520_metadata_t", "serial_metadata_t"}

MetaCollab ==
  MetaUnionCollab \cup
  {"lpl_metadata_t", "timestamp_metadata_t", "link_metadata_t", "flags_metadata_t"}

CollabTypes == HeaderCollab \cup FooterCollab \cup MetaCollab

\* ----------------------------------------------------------- C type layout

\* Alignments of the target's ABI (MSP430: byte or 16-bit word).
Aligns == {1, 2}

\* A complete object type: sizeof is positive and a multiple of the alignment.
Layouts ==
  {[size |-> s, align |-> a] : s \in 1..MaxSize, a \in Aligns} \cap
  {l \in [size : 1..MaxSize, align : Aligns] : l.size % l.align = 0}

BaseLayout == [size |-> 1, align |-> 1]

Max(a, b) == IF a >= b THEN a ELSE b

Min(a, b) == IF a <= b THEN a ELSE b

RECURSIVE SeqMax(_)
SeqMax(s) == IF s = <<>> THEN 0 ELSE Max(Head(s), SeqMax(Tail(s)))

\* The least multiple of a that is >= n.
RoundUp(n, a) == ((n + a - 1) \div a) * a

\* ------------------------------------------------ the header's declarations

\* A declaration slot: the alternatives that share its storage (one for a
\* plain field, several for a union) and the macro whose #ifdef encloses it.
Field(n, t) == [name |-> n, type |-> t]

Slot(alts, g) == [alts |-> alts, guard |-> g]

\* typedef union message_header { cc2520; serial; } message_header_t;
message_header ==
  << Slot(<< Field("cc2520", "cc2520packet_header_t"),
             Field("serial", "serial_header_t") >>, NoGuard) >>

\* Variant: the footer union given a serial member, as the header has.
message_footer_with_serial ==
  << Slot(<< Field("cc2520", "cc2520packet_footer_t"),
             Field("serial", "serial_header_t") >>, NoGuard) >>

\* typedef union message_footer { cc2520; } message_footer_t;
message_footer ==
  << Slot(<< Field("cc2520", "cc2520packet_footer_t") >>, NoGuard) >>

\* Variant: link_meta enclosed by the wrong #ifdef.
message_metadata_link_by_lpl ==
  << Slot(<< Field("cc2520_meta", "cc2520_metadata_t"),
             Field("serial_meta", "serial_metadata_t") >>, NoGuard),
     Slot(<< Field("lpl_meta", "lpl_metadata_t") >>, LPL),
     Slot(<< Field("ts_meta", "timestamp_metadata_t") >>, NoGuard),
     Slot(<< Field("link_meta", "link_metadata_t") >>, LPL),
     Slot(<< Field("flags_meta", "flags_metadata_t") >>, NoGuard) >>

\* Variant: ts_meta moved inside the LOW_POWER_LISTENING block.
message_metadata_ts_gated ==
  << Slot(<< Field("cc2520_meta", "cc2520_metadata_t"),
             Field("serial_meta", "serial_metadata_t") >>, NoGuard),
     Slot(<< Field("lpl_meta", "lpl_metadata_t") >>, LPL),
     Slot(<< Field("ts_meta", "timestamp_metadata_t") >>, LPL),
     Slot(<< Field("link_meta", "link_metadata_t") >>, PL),
     Slot(<< Field("flags_meta", "flags_metadata_t") >>, NoGuard) >>

\* Variant: ts_meta declared ahead of the lpl_meta block.
message_metadata_ts_first ==
  << Slot(<< Field("cc2520_meta", "cc2520_metadata_t"),
             Field("serial_meta", "serial_metadata_t") >>, NoGuard),
     Slot(<< Field("ts_meta", "timestamp_metadata_t") >>, NoGuard),
     Slot(<< Field("lpl_meta", "lpl_metadata_t") >>, LPL),
     Slot(<< Field("link_meta", "link_metadata_t") >>, PL),
     Slot(<< Field("flags_meta", "flags_metadata_t") >>, NoGuard) >>

\* typedef struct message_metadata { union {...}; ... } message_metadata_t;
message_metadata ==
  << Slot(<< Field("cc2520_meta", "cc2520_metadata_t"),
             Field("serial_meta", "serial_metadata_t") >>, NoGuard),
     Slot(<< Field("lpl_meta", "lpl_metadata_t") >>, LPL),
     Slot(<< Field("ts_meta", "timestamp_metadata_t") >>, NoGuard),
     Slot(<< Field("link_meta", "link_metadata_t") >>, PL),
     Slot(<< Field("flags_meta", "flags_metadata_t") >>, NoGuard) >>

\* Variant: #ifndef written for #ifdef.
IfNDef(g, defined) == g = NoGuard \/ g \notin defined

\* #ifdef M ... #endif: the enclosed text is kept iff M is defined.
IfDef(g, defined) == g = NoGuard \/ g \in defined

\* The slots of a declaration that survive preprocessing.
Preprocess(slots, defined) ==
  LET Keep(s) == IfDef(s.guard, defined) IN SelectSeq(slots, Keep)

\* Size and alignment of the storage that a slot's alternatives share.
UnionAlign(alts, e) == SeqMax([k \in 1..Len(alts) |-> e[alts[k].type].align])

\* Variant: the storage sized for the smallest alternative.
UnionSizeOfSmallest(alts, e) ==
  LET a == UnionAlign(alts, e)
      m == CHOOSE x \in {e[alts[k].type].size : k \in 1..Len(alts)} :
             \A k \in 1..Len(alts) : x <= e[alts[k].type].size
  IN RoundUp(m, a)

\* Variant: the alternatives stored one after another, as in a struct.
RECURSIVE SeqSum(_)
SeqSum(s) == IF s = <<>> THEN 0 ELSE Head(s) + SeqSum(Tail(s))

UnionSizeAsStruct(alts, e) ==
  RoundUp(SeqSum([k \in 1..Len(alts) |-> e[alts[k].type].size]), UnionAlign(alts, e))

UnionSize(alts, e) ==
  RoundUp(SeqMax([k \in 1..Len(alts) |-> e[alts[k].type].size]), UnionAlign(alts, e))

\* Where a slot starts: at the first offset after the slot before it that
\* its alignment allows.
SlotOffset(prevEnd, alts, e) == RoundUp(prevEnd, UnionAlign(alts, e))

\* Alternatives of one slot all start where the slot starts.
AltOffset(slotOff, alts, k, e) == slotOff

\* The first i slots laid out in declaration order: the members with their
\* offsets, where the last slot ends, and the strictest alignment so far.
RECURSIVE Place(_, _, _)
Place(slots, i, e) ==
  IF i = 0 THEN [members |-> <<>>, end |-> 0, align |-> 1]
  ELSE LET p == Place(slots, i - 1, e)
           alts == slots[i].alts
           off == SlotOffset(p.end, alts, e)
       IN [members |->
             p.members \o
             [k \in 1..Len(alts) |->
                [name |-> alts[k].name, type |-> alts[k].type, slot |-> i,
                 offset |-> AltOffset(off, alts, k, e),
                 size |-> e[alts[k].type].size]],
           end |-> off + UnionSize(alts, e),
           align |-> Max(p.align, UnionAlign(alts, e))]

\* The type a typedef declares: its members with their offsets, its size
\* (padded to its alignment) and its alignment.
Typedef(name, kind, slots, e) ==
  LET p == Place(slots, Len(slots), e)
  IN [name |-> name, kind |-> kind, members |-> p.members,
      size |-> RoundUp(p.end, p.align), align |-> p.align]

\* The three typedefs between #define PLATFORM_MESSAGE_H and #endif.
message_header_t(defined, e) ==
  Typedef("message_header_t", "union", Preprocess(message_header, defined), e)

message_footer_t(defined, e) ==
  Typedef("message_footer_t", "union", Preprocess(message_footer, defined), e)

message_metadata_t(defined, e) ==
  Typedef("message_metadata_t", "struct", Preprocess(message_metadata, defined), e)

HeaderBody(defined, e) ==
  << message_header_t(defined, e), message_footer_t(defined, e),
     message_metadata_t(defined, e) >>

\* ---------------------------------------------------------------- state

VARIABLES
  env,        \* layout of every collaborator type in this build
  macros,     \* macros defined at this point of the translation unit
  decls,      \* type declarations the compiler has seen, in order
  includes,   \* how many #include "platform_message.h" were processed
  config,     \* feature macros that were defined when the typedefs were seen
  utype,      \* run time: the union type the followed objects have
  transport,  \* run time: transport each object's packet is in use by
  store,      \* run time: object representation (bytes) of each object
  active,     \* run time: member last stored through since allocation
  wrote,      \* run time: the bytes that store was given
  loaded      \* run time: member last loaded through since allocation

vars ==
  <<env, macros, decls, includes, config, utype, transport, store, active, wrote, loaded>>

ctvars == <<env, macros, decls, includes, config>>

rtvars == <<utype, transport, store, active, wrote, loaded>>

\* The two packet buffers whose unions are followed at run time.
Objects == {"bufA", "bufB"}

Byte == {0, 1}

\* ------------------------------------------------------ compile-time steps

\* -DFLAG on the command line, or #define FLAG anywhere in the unit.
Define(f) ==
  /\ f \notin macros
  /\ macros' = macros \cup {f}
  /\ UNCHANGED <<env, decls, includes, config, rtvars>>

\* -UFLAG, or #undef FLAG anywhere in the unit.
Undefine(f) ==
  /\ f \in macros
  /\ macros' = macros \ {f}
  /\ UNCHANGED <<env, decls, includes, config, rtvars>>

\* Variant: the header without its include guard test.
IncludeEffectUnguarded(defined, ds, cfg, e) ==
  [macros |-> defined \cup {PLATFORM_MESSAGE_H},
   decls |-> ds \o HeaderBody(defined, e),
   config |-> defined \cap FeatureFlags]

\* What one #include of the header adds to the translation unit: nothing
\* when the guard macro is defined, else the guard and the three typedefs,
\* compiled under the feature macros defined at that point.
IncludeEffect(defined, ds, cfg, e) ==
  IF PLATFORM_MESSAGE_H \in defined
    THEN [macros |-> defined, decls |-> ds, config |-> cfg]
    ELSE [macros |-> defined \cup {PLATFORM_MESSAGE_H},
          decls |-> ds \o HeaderBody(defined, e),
          config |-> defined \cap FeatureFlags]

Include ==
  /\ includes < MaxIncludes
  /\ includes' = includes + 1
  /\ macros' = IncludeEffect(macros, decls, config, env).macros
  /\ decls' = IncludeEffect(macros, decls, config, env).decls
  /\ config' = IncludeEffect(macros, decls, config, env).config
  /\ UNCHANGED <<env, rtvars>>

\* Environments vary the collaborators of one declaration at a time (the
\* three typedefs share no collaborator type), and those of message_metadata
\* in two overlapping windows of four consecutive fields' types.
MetaFront == MetaUnionCollab \cup {"lpl_metadata_t", "timestamp_metadata_t"}

MetaBack == MetaCollab \ MetaUnionCollab

Groups == {HeaderCollab, FooterCollab, MetaFront, MetaBack}

EnvOf(g, e) == [t \in CollabTypes |-> IF t \in g THEN e[t] ELSE BaseLayout]

IdleRun ==
  /\ utype = "none"
  /\ transport = [o \in Objects |-> "none"]
  /\ store = [o \in Objects |-> <<>>]
  /\ active = [o \in Objects |-> "none"]
  /\ wrote = [o \in Objects |-> <<>>]
  /\ loaded = [o \in Objects |-> "none"]

Init ==
  /\ \E g \in Groups : \E e \in [g -> Layouts] : env = EnvOf(g, e)
  /\ macros = {}
  /\ decls = <<>>
  /\ includes = 0
  /\ config = {}
  /\ IdleRun

Next ==
  \/ \E f \in FeatureFlags : Define(f)
  \/ \E f \in FeatureFlags : Undefine(f)
  \/ Include

Spec == Init /\ [][Next]_vars

\* ------------------------------------------------------------ run time

\* The source declaration the followed union comes from: message_header, or
\* the anonymous union that opens message_metadata.
UnionAlts(ut) ==
  IF ut = "message_header_t" THEN message_header[1].alts ELSE message_metadata[1].alts

\* sizeof of that union, and its members as compiled.
UnionStorage(ut, e) == UnionSize(UnionAlts(ut), e)

UnionMember(ds, ut, k) ==
  LET d == ds[CHOOSE i \in DOMAIN ds : ds[i].name = ut]
  IN d.members[CHOOSE j \in DOMAIN d.members :
                 d.members[j].name = UnionAlts(ut)[k].name]

\* The member the stack of transport t accesses: the radio stack the cc2520
\* member, the serial stack the serial member.
TransportMember(ds, ut, t) == UnionMember(ds, ut, IF t = "radio" THEN 1 ELSE 2)

Transports == {"radio", "serial"}

\* Variant: a tagged union, the tag kept in the first byte of the object.
StoreMemberTagged(obj, m, v, rest) ==
  [i \in 1..Len(obj) |->
     IF i = 1 THEN (IF m.type \in {"serial_header_t", "serial_metadata_t"} THEN 1 ELSE 0)
     ELSE IF i - 1 <= m.size THEN v[i - 1] ELSE rest[i - 1 - m.size]]

\* obj.m = v: the bytes of member m take the value's bytes; the bytes of the
\* union after m take unspecified values (rest, one per such byte).
StoreMember(obj, m, v, rest) ==
  [i \in 1..Len(obj) |->
     IF i <= m.offset THEN obj[i]
     ELSE IF i <= m.offset + m.size THEN v[i - m.offset]
     ELSE rest[i - m.offset - m.size]]

\* The value read as obj.m: the bytes of member m.
LoadMember(obj, m) == [i \in 1..m.size |-> obj[m.offset + i]]

Images(n) == [1..n -> Byte]

\* Variant: a stack that loads whatever the buffer holds.
LoadAllowedAlways(act, m) == TRUE

\* The discipline of the stacks: a member is read only while it is the
\* active member, the one last stored through.
LoadAllowed(act, m) == act = m.name

\* The stack of transport t takes buffer o from the pool.
Alloc(o, t) ==
  /\ transport[o] = "none"
  /\ transport' = [transport EXCEPT ![o] = t]
  /\ loaded' = [loaded EXCEPT ![o] = "none"]
  /\ UNCHANGED <<ctvars, utype, store, active, wrote>>

\* The stack in use of o stores v through its transport's member.
Store(o, v, rest) ==
  /\ transport[o] # "none"
  /\ LET m == TransportMember(decls, utype, transport[o])
     IN /\ store' = [store EXCEPT ![o] = StoreMember(store[o], m, v, rest)]
        /\ active' = [active EXCEPT ![o] = m.name]
        /\ wrote' = [wrote EXCEPT ![o] = v]
  /\ loaded' = [loaded EXCEPT ![o] = "none"]
  /\ UNCHANGED <<ctvars, utype, transport>>

\* The stack in use of o loads through its transport's member.
Load(o) ==
  /\ transport[o] # "none"
  /\ LET m == TransportMember(decls, utype, transport[o])
     IN /\ LoadAllowed(active[o], m)
        /\ loaded' = [loaded EXCEPT ![o] = m.name]
  /\ UNCHANGED <<ctvars, utype, transport, store, active, wrote>>

\* The packet has left the stack; the buffer returns to the pool as it is.
Free(o) ==
  /\ transport[o] # "none"
  /\ transport' = [transport EXCEPT ![o] = "none"]
  /\ loaded' = [loaded EXCEPT ![o] = "none"]
  /\ UNCHANGED <<ctvars, utype, store, active, wrote>>

UnionTypes == {"message_header_t", "message_metadata_t"}

\* Size of the member that the stack in use of o accesses.
MemberSize(o) ==
  IF transport[o] = "none" THEN 0
  ELSE TransportMember(decls, utype, transport[o]).size

\* The run-time environments: the layouts of at most two bytes for the two
\* member types of the followed union, every other collaborator minimal.
RunLayouts == {l \in Layouts : l.size <= 2}

\* A compiled header, the buffers zeroed (static storage) and in the pool.
InitRun ==
  /\ utype \in UnionTypes
  /\ \E e \in [{UnionAlts(utype)[k].type : k \in 1..2} -> RunLayouts] :
       env = [t \in CollabTypes |-> IF t \in DOMAIN e THEN e[t] ELSE BaseLayout]
  /\ config \in {{}, FeatureFlags}
  /\ macros = config \cup {PLATFORM_MESSAGE_H}
  /\ decls = HeaderBody(config, env)
  /\ includes = 1
  /\ transport = [o \in Objects |-> "none"]
  /\ store = [o \in Objects |-> [i \in 1..UnionStorage(utype, env) |-> 0]]
  /\ active = [o \in Objects |-> "none"]
  /\ wrote = [o \in Objects |-> <<>>]
  /\ loaded = [o \in Objects |-> "none"]

NextRun ==
  \/ \E o \in Objects, t \in Transports : Alloc(o, t)
  \/ \E o \in Objects :
       \E v \in Images(MemberSize(o)), rest \in Images(Len(store[o]) - MemberSize(o)) :
         Store(o, v, rest)
  \/ \E o \in Objects : Load(o)
  \/ \E o \in Objects : Free(o)

SpecRun == InitRun /\ [][NextRun]_vars

\* ------------------------------------------------ reading the declarations

Compiled == decls # <<>>

\* The declaration of the type named n, once the header has been compiled.
Decl(n) == decls[CHOOSE i \in DOMAIN decls : decls[i].name = n]

MemberNames(d) == {d.members[i].name : i \in DOMAIN d.members}

TypesUsed(d) == {d.members[i].type : i \in DOMAIN d.members}

Member(d, n) == d.members[CHOOSE i \in DOMAIN d.members : d.members[i].name = n]

NameTypes(d) == {<<d.members[i].name, d.members[i].type>> : i \in DOMAIN d.members}

\* The same collaborators compiled under another set of feature macros.
MetadataUnder(cfg) == message_metadata_t(cfg, env)

HeaderUnder(cfg) == message_header_t(cfg, env)

FooterUnder(cfg) == message_footer_t(cfg, env)

Toggle(cfg, f) == IF f \in cfg THEN cfg \ {f} ELSE cfg \cup {f}

\* ------------------------------------------------------------------ claims

\* C1: in every configuration of LOW_POWER_LISTENING and PACKET_LINK,
\* message_metadata_t holds the cc2520_meta/serial_meta union, ts_meta and
\* flags_meta, lpl_meta iff LOW_POWER_LISTENING was defined, link_meta iff
\* PACKET_LINK was defined, and nothing else.
C1_MetadataFields ==
  Compiled =>
    LET d == Decl("message_metadata_t")
    IN /\ d.kind = "struct"
       /\ NameTypes(d) =
            {<<"cc2520_meta", "cc2520_metadata_t">>, <<"serial_meta", "serial_metadata_t">>,
             <<"ts_meta", "timestamp_metadata_t">>, <<"flags_meta", "flags_metadata_t">>}
            \cup (IF LPL \in config THEN {<<"lpl_meta", "lpl_metadata_t">>} ELSE {})
            \cup (IF PL \in config THEN {<<"link_meta", "link_metadata_t">>} ELSE {})
       /\ Len(d.members) = Cardinality(MemberNames(d))

C1_Witness ==
  /\ Compiled
  /\ config = {LPL}
  /\ "lpl_meta" \in MemberNames(Decl("message_metadata_t"))
  /\ "link_meta" \notin MemberNames(Decl("message_metadata_t"))

\* C2 as stated: message_header_t is a union of exactly the members cc2520
\* and serial, and its size equals the larger of the two member sizes.
C2_SizeIsLargerMember ==
  Compiled =>
    LET d == Decl("message_header_t")
    IN /\ d.kind = "union"
       /\ NameTypes(d) = {<<"cc2520", "cc2520packet_header_t">>, <<"serial", "serial_header_t">>}
       /\ Len(d.members) = 2
       /\ d.size = Max(env["cc2520packet_header_t"].size, env["serial_header_t"].size)

\* C2 amended: message_header_t is a union of exactly the members cc2520 and
\* serial; its size is the least multiple of both members' alignments that
\* is at least the larger member size, so it equals the larger member size
\* when the two members have the same alignment and may exceed it by
\* padding otherwise.
C2_SizeIsLargerMemberPadded ==
  Compiled =>
    LET d == Decl("message_header_t")
        c == env["cc2520packet_header_t"]
        r == env["serial_header_t"]
    IN /\ d.kind = "union"
       /\ NameTypes(d) = {<<"cc2520", "cc2520packet_header_t">>, <<"serial", "serial_header_t">>}
       /\ Len(d.members) = 2
       /\ d.size >= c.size /\ d.size >= r.size
       /\ d.size % c.align = 0 /\ d.size % r.align = 0
       /\ \A n \in Max(c.size, r.size)..(d.size - 1) : n % c.align # 0 \/ n % r.align # 0
       /\ c.align = r.align => d.size = Max(c.size, r.size)

C2_Witness ==
  /\ Compiled
  /\ Decl("message_header_t").size >
       Max(env["cc2520packet_header_t"].size, env["serial_header_t"].size)

\* C3: message_footer_t is a union with exactly one variant, the radio
\* footer cc2520, and no serial variant, in every feature configuration.
C3_FooterOneVariant ==
  Compiled =>
    LET d == Decl("message_footer_t")
    IN /\ d.kind = "union"
       /\ Len(d.members) = 1
       /\ d.members[1].name = "cc2520"
       /\ d.members[1].type = "cc2520packet_footer_t"
       /\ "serial" \notin MemberNames(d)

C3_Witness ==
  /\ Compiled
  /\ config = {LPL, PL}
  /\ MemberNames(Decl("message_footer_t")) = {"cc2520"}

\* C4: in every configuration and for every assignment of sizes to the
\* collaborator types, each of the three exported types is at least as large
\* as each member present in it.
C4_SizeCoversMembers ==
  Compiled =>
    \A i \in DOMAIN decls :
      \A k \in DOMAIN decls[i].members :
        /\ decls[i].size >= decls[i].members[k].size
        /\ decls[i].size >= decls[i].members[k].offset + decls[i].members[k].size

C4_Witness ==
  /\ Compiled
  /\ env["cc2520packet_header_t"].size = 1
  /\ env["serial_header_t"].size = MaxSize
  /\ Decl("message_header_t").size >= MaxSize

\* The macro whose #ifdef encloses the declaration of member n of
\* message_metadata, NoGuard when none does.
GuardOf(n) ==
  LET i == CHOOSE j \in DOMAIN message_metadata :
             \E k \in DOMAIN message_metadata[j].alts : message_metadata[j].alts[k].name = n
  IN message_metadata[i].guard

FeatureTypes ==
  {"lpl_metadata_t", "timestamp_metadata_t", "link_metadata_t", "flags_metadata_t"}

\* C5 as stated: each of lpl_metadata_t, timestamp_metadata_t,
\* link_metadata_t and flags_metadata_t is used only inside an #ifdef of a
\* feature macro, and so only when that macro is defined.
C5_EachFeatureTypeGated ==
  Compiled =>
    LET d == Decl("message_metadata_t")
    IN \A k \in DOMAIN d.members :
         d.members[k].type \in FeatureTypes =>
           /\ GuardOf(d.members[k].name) # NoGuard
           /\ GuardOf(d.members[k].name) \in config

\* C5 amended: only lpl_metadata_t (by LOW_POWER_LISTENING) and
\* link_metadata_t (by PACKET_LINK) are gated; timestamp_metadata_t and
\* flags_metadata_t are used in every configuration, also when no feature
\* macro is defined.
C5_OnlyLplAndLinkGated ==
  Compiled =>
    LET u == TypesUsed(Decl("message_metadata_t"))
    IN /\ "lpl_metadata_t" \in u <=> LPL \in config
       /\ "link_metadata_t" \in u <=> PL \in config
       /\ "timestamp_metadata_t" \in u
       /\ "flags_metadata_t" \in u

C5_Witness ==
  /\ Compiled
  /\ config = {}
  /\ {"timestamp_metadata_t", "flags_metadata_t"} \subseteq TypesUsed(Decl("message_metadata_t"))
  /\ "lpl_metadata_t" \notin TypesUsed(Decl("message_metadata_t"))

\* The present fields of a compiled message_metadata_t, in the order
\* cc2520_meta/serial_meta (offset 0), lpl_meta, ts_meta, link_meta,
\* flags_meta, each starting after the one before it.
MetadataOrder == <<"cc2520_meta", "lpl_meta", "ts_meta", "link_meta", "flags_meta">>

InOrder(d) ==
  /\ Member(d, "cc2520_meta").offset = 0
  /\ Member(d, "serial_meta").offset = 0
  /\ \A i, j \in DOMAIN MetadataOrder :
       (/\ i < j
        /\ MetadataOrder[i] \in MemberNames(d)
        /\ MetadataOrder[j] \in MemberNames(d))
       => Member(d, MetadataOrder[i]).offset + Member(d, MetadataOrder[i]).size
            <= Member(d, MetadataOrder[j]).offset

\* The fields declared after the block that macro f encloses.
After(f) == IF f = LPL THEN {"ts_meta", "link_meta", "flags_meta"} ELSE {"flags_meta"}

BlockType(f) == IF f = LPL THEN "lpl_metadata_t" ELSE "link_metadata_t"

\* C8 as stated: the present fields are in the fixed order, and the offsets
\* of ts_meta, link_meta and flags_meta differ between a build with and one
\* without LOW_POWER_LISTENING, that of flags_meta also between a build
\* with and one without PACKET_LINK.
C8_OrderAndOffsetsShift ==
  Compiled =>
    LET d == Decl("message_metadata_t")
    IN /\ InOrder(d)
       /\ \A f \in FeatureFlags :
            LET o == MetadataUnder(Toggle(config, f))
            IN \A n \in After(f) \cap MemberNames(d) :
                 Member(d, n).offset # Member(o, n).offset

\* C8 amended: the present fields are in the fixed order; defining
\* LOW_POWER_LISTENING never lowers the offset of ts_meta, link_meta or
\* flags_meta, and defining PACKET_LINK never lowers that of flags_meta; the
\* offset rises by exactly the size of the added block when every metadata
\* member type is byte-aligned, and may stay the same when the block fits
\* into alignment padding.
C8_OrderAndOffsetsNeverLower ==
  Compiled =>
    LET d == Decl("message_metadata_t")
    IN /\ InOrder(d)
       /\ \A f \in FeatureFlags :
            LET with == IF f \in config THEN d ELSE MetadataUnder(config \cup {f})
                without == IF f \in config THEN MetadataUnder(config \ {f}) ELSE d
            IN \A n \in After(f) \cap MemberNames(d) :
                 /\ Member(with, n).offset >= Member(without, n).offset
                 /\ (\A t \in MetaCollab : env[t].align = 1) =>
                      Member(with, n).offset =
                        Member(without, n).offset + env[BlockType(f)].size

C8_Witness ==
  /\ Compiled
  /\ config = {LPL}
  /\ Member(Decl("message_metadata_t"), "ts_meta").offset =
       Member(MetadataUnder({}), "ts_meta").offset
  /\ Member(Decl("message_metadata_t"), "lpl_meta").offset > 0

\* C9: toggling LOW_POWER_LISTENING changes the member set of
\* message_metadata_t by lpl_meta only, toggling PACKET_LINK by link_meta
\* only, and neither changes the member set of message_header_t or
\* message_footer_t.
C9_FlagsLocal ==
  Compiled =>
    /\ LET d == Decl("message_metadata_t")
           l == MetadataUnder(Toggle(config, LPL))
           k == MetadataUnder(Toggle(config, PL))
       IN /\ NameTypes(d) \ {<<"lpl_meta", "lpl_metadata_t">>}
               = NameTypes(l) \ {<<"lpl_meta", "lpl_metadata_t">>}
          /\ ("lpl_meta" \in MemberNames(d)) # ("lpl_meta" \in MemberNames(l))
          /\ NameTypes(d) \ {<<"link_meta", "link_metadata_t">>}
               = NameTypes(k) \ {<<"link_meta", "link_metadata_t">>}
          /\ ("link_meta" \in MemberNames(d)) # ("link_meta" \in MemberNames(k))
    /\ \A f \in FeatureFlags :
         /\ Decl("message_header_t") = HeaderUnder(Toggle(config, f))
         /\ Decl("message_footer_t") = FooterUnder(Toggle(config, f))

C9_Witness ==
  /\ Compiled
  /\ config = {PL}
  /\ MemberNames(Decl("message_metadata_t")) =
       MemberNames(MetadataUnder({LPL, PL})) \ {"lpl_meta"}

\* C10: the first inclusion defines PLATFORM_MESSAGE_H and the three types;
\* after any number n >= 1 of inclusions the declared types are those of a
\* single inclusion.
C10_IncludeIdempotent ==
  includes >= 1 =>
    /\ PLATFORM_MESSAGE_H \in macros
    /\ Len(decls) = 3
    /\ decls = HeaderBody(config, env)
    /\ {decls[i].name : i \in DOMAIN decls} =
         {"message_header_t", "message_footer_t", "message_metadata_t"}

C10_Witness ==
  /\ includes = MaxIncludes
  /\ includes >= 2
  /\ Len(decls) = 3

Prefix(q, n) == [i \in 1..n |-> q[i]]

C7_NoDiscriminant ==
  /\ \A o \in Objects : Len(store[o]) = UnionStorage(utype, env)
  /\ \A o, q \in Objects :
       LET n == Min(UnionMember(decls, utype, 1).size, UnionMember(decls, utype, 2).size)
       IN (/\ active[o] # "none"
           /\ active[q] # "none"
           /\ active[o] # active[q]
           /\ Prefix(wrote[o], n) = Prefix(wrote[q], n))
          => Prefix(store[o], n) = Prefix(store[q], n)
  /\ \A o \in Objects, k \in 1..2 :
       LET m == UnionMember(decls, utype, k)
           n == Min(m.size, Len(wrote[o]))
       IN active[o] # "none" =>
            /\ m.offset = 0
            /\ Prefix(LoadMember(store[o], m), n) = Prefix(wrote[o], n)

C7_Witness ==
  /\ active["bufA"] \in {"cc2520", "cc2520_meta"}
  /\ active["bufB"] \in {"serial", "serial_meta"}
  /\ transport["bufA"] = "radio"
  /\ transport["bufB"] = "serial"
  /\ store["bufA"] = store["bufB"]
  /\ \E i \in DOMAIN store["bufA"] : store["bufA"][i] # 0

====
